---- MODULE Spec2Model ----
(***************************************************************************)
(* State-machine model of the two gimbal drivers of the repository:        *)
(*   - Storm32Controller   (camera_gimbal/storm32_controller.py)           *)
(*   - SpotlightController (spotlight_gimbal/servo_controller.py)          *)
(*                                                                         *)
(* Python floats are modelled in fixed point: a float v is the integer     *)
(* v * Scale.  Every input below is a value on which this exact arithmetic *)
(* and IEEE double arithmetic agree.                                       *)
(*                                                                         *)
(* Return values are the strings "True", "False", "None", "Status".        *)
(***************************************************************************)
EXTENDS Integers, Sequences, FiniteSets, TLC

\* Fixed-point units per degree (or per degree/second, or per percent).
Scale == 10 * 100

Deg(d) == d * Scale

------------------------------------------------------------------------------
(* Bounds of the model *)

\* Largest number of stabilize() steps that reach the position path between two
\* caller set_position/center calls (each such step moves the stored target).
MaxStab == 2

------------------------------------------------------------------------------
(* Python built-ins *)

\* min(a, b) and max(a, b)
Min2(a, b) == IF b < a THEN b ELSE a

Max2(a, b) == IF b > a THEN b ELSE a

\* An int() that rounds toward minus infinity.
TruncFloor(n, d) == n \div d

\* int(n / d) for d > 0: truncation toward zero.
Trunc(n, d) == IF n >= 0 THEN n \div d ELSE -((-n) \div d)

\* int.to_bytes(2, 'little', signed=True): OverflowError outside int16.
FitsInt16(v) == v >= -32768 /\ v <= 32767

ToBytesLE16(v) == LET u == v % 65536 IN <<u % 256, u \div 256>>

------------------------------------------------------------------------------
(* Storm32Controller: state *)

VARIABLES
    serial_conn,      \* self.serial_conn: "None", or the handle's "open"/"closed"
    is_connected_flag, \* self._is_connected
    ser_last,         \* history: the last call, [op, args, ret]
    ser_out,          \* history: the bytes the last call wrote to the transport
    ser_pre,          \* history: the driver before the last call, and the call before it
    ser_closed,       \* history: number of handles the last call closed
    ser_state,        \* history: "Connected" since a connect() returned True,
                      \* "Disconnected" initially, since a connect() returned
                      \* False and since a disconnect()
    ser_orphan,       \* history: a handle this driver opened was unbound from
                      \* serial_conn while open and nothing has closed it
    ser_block         \* history: the with-block: "out" or "in"; "in_orphaned" once
                      \* a handle was orphaned inside the block, "out_orphaned"
                      \* after leaving such a block

serialVars == <<serial_conn, is_connected_flag, ser_last, ser_out, ser_pre,
                ser_closed, ser_state, ser_orphan, ser_block>>

(* SpotlightController: state *)

VARIABLES
    pigpio_present,    \* the module-level import of pigpio succeeded
    pi,                \* self.pi: "None", or the pigpio handle's "connected"/"unconnected"
    use_stabilization, \* self.use_stabilization
    has_mpu,           \* self.mpu is not None
    mpu_ready,         \* self.mpu.is_initialized()
    target_pitch,      \* self.target_pitch
    target_yaw,        \* self.target_yaw
    pitch_pwm,         \* self.pitch_pwm
    yaw_pwm,           \* self.yaw_pwm
    sp_last,           \* history: the last call, [op, args, ret]
    sp_writes,         \* history: the <<channel, width>> writes of the last call that
                       \* reached the hardware, in order
    sp_pre,            \* history: the controller before the last call
    sp_issued,         \* history: the clamped pose the last call's position path took
    sp_reading,        \* history: what the sensor answered the last stabilize()
    stab_count,        \* history: stabilize() calls since the last set_position/center
    run,               \* history: the stabilize() calls since the caller last set the target
    sp_zeroed          \* history: the channels a pulse width of 0 has reached so far

spotVars == <<pigpio_present, pi, use_stabilization, has_mpu, mpu_ready,
              target_pitch, target_yaw, pitch_pwm, yaw_pwm,
              sp_last, sp_writes, sp_pre, sp_issued, sp_reading, stab_count, run,
              sp_zeroed>>

\* Caller inputs of the serial driver, in fixed point.
AnglePitchArgs == {Deg(120), 12340, Deg(-45), Deg(0)}

AngleRollArgs == {Deg(-150), Deg(0), Deg(30)}

AngleYawArgs == {Deg(200), -12345, Deg(-190), Deg(0)}

SpeedPitchArgs == {Deg(500), Deg(0), Deg(4000)}

SpeedRollArgs == {Deg(-20), 3276750}

SpeedYawArgs == {Deg(0), Deg(-3300)}

\* Replies the transport may hold after the status wait (<<>>: nothing).
Replies == {<<>>, <<250>>, <<250, 16, 1, 2>>}

SerialInit ==
    /\ serial_conn = "None"
    /\ is_connected_flag = FALSE
    /\ ser_last = [op |-> "init", args |-> <<>>, ret |-> "None"]
    /\ ser_out = <<>>
    /\ ser_pre = [conn |-> "None", flag |-> FALSE, connected |-> FALSE,
                  state |-> "Disconnected", block |-> "out",
                  last_op |-> "init", last_ret |-> "None"]
    /\ ser_closed = 0
    /\ ser_state = "Disconnected"
    /\ ser_orphan = FALSE
    /\ ser_block = "out"

\* An is_connected() that looks at the handle and not at the flag.
IsConnectedHandleOnly == serial_conn # "None" /\ serial_conn = "open"

\* is_connected()
Storm32IsConnected == is_connected_flag /\ serial_conn # "None" /\ serial_conn = "open"

SerPre == [conn |-> serial_conn, flag |-> is_connected_flag,
           connected |-> Storm32IsConnected, state |-> ser_state,
           block |-> ser_block,
           last_op |-> ser_last.op, last_ret |-> ser_last.ret]

------------------------------------------------------------------------------
(* Storm32Controller: command codec *)

BuildAngleCommand(pitch, roll, yaw) ==
    LET pitch_int == Trunc(pitch * 100, Scale)
        roll_int  == Trunc(roll * 100, Scale)
        yaw_int   == Trunc(yaw * 100, Scale)
    IN  IF FitsInt16(pitch_int) /\ FitsInt16(roll_int) /\ FitsInt16(yaw_int)
        THEN [ok |-> TRUE,
              bytes |-> <<250, 14>> \o ToBytesLE16(pitch_int)
                        \o ToBytesLE16(roll_int) \o ToBytesLE16(yaw_int)]
        ELSE [ok |-> FALSE, bytes |-> <<>>]

\* A _build_speed_command that limits each speed to +-100 first.
BuildSpeedCommandLimited(pitch_speed, roll_speed, yaw_speed) ==
    LET speed_p == Trunc(Max2(Deg(-100), Min2(Deg(100), pitch_speed)) * 10, Scale)
        speed_r == Trunc(Max2(Deg(-100), Min2(Deg(100), roll_speed)) * 10, Scale)
        speed_y == Trunc(Max2(Deg(-100), Min2(Deg(100), yaw_speed)) * 10, Scale)
    IN  [ok |-> TRUE,
         bytes |-> <<250, 15>> \o ToBytesLE16(speed_p)
                   \o ToBytesLE16(speed_r) \o ToBytesLE16(speed_y)]

\* A _build_speed_command that wraps a value too large for its field.
BuildSpeedCommandWrapping(pitch_speed, roll_speed, yaw_speed) ==
    LET speed_p == Trunc(pitch_speed * 10, Scale)
        speed_r == Trunc(roll_speed * 10, Scale)
        speed_y == Trunc(yaw_speed * 10, Scale)
    IN  [ok |-> TRUE,
         bytes |-> <<250, 15>> \o ToBytesLE16(speed_p)
                   \o ToBytesLE16(speed_r) \o ToBytesLE16(speed_y)]

BuildSpeedCommand(pitch_speed, roll_speed, yaw_speed) ==
    LET speed_p == Trunc(pitch_speed * 10, Scale)
        speed_r == Trunc(roll_speed * 10, Scale)
        speed_y == Trunc(yaw_speed * 10, Scale)
    IN  IF FitsInt16(speed_p) /\ FitsInt16(speed_r) /\ FitsInt16(speed_y)
        THEN [ok |-> TRUE,
              bytes |-> <<250, 15>> \o ToBytesLE16(speed_p)
                        \o ToBytesLE16(speed_r) \o ToBytesLE16(speed_y)]
        ELSE [ok |-> FALSE, bytes |-> <<>>]

BuildStatusRequest == <<250, 16>>

\* The placeholder parser: the same record for every response.
ParseStatusResponse(response) == "Status"

------------------------------------------------------------------------------
(* Storm32Controller: operations *)

\* connect(): opened = FALSE is serial.Serial(...) raising SerialException,
\* which leaves self.serial_conn bound to whatever it was.
\* A connect() that forgets to clear the flag when the open fails.
ConnectFlagStale(opened) == opened \/ is_connected_flag

\* self._is_connected after connect(): True after the open, False in the handler.
ConnectFlag(opened) == opened

\* scoped: the call is __enter__'s.  finalized: the runtime closes a handle
\* that the rebinding of serial_conn left unreferenced (connect() never does).
Storm32ConnectCall(scoped, opened, finalized) ==
    LET orphaned == opened /\ serial_conn = "open" /\ ~finalized
    IN  /\ ser_pre' = SerPre
        /\ serial_conn' = IF opened THEN "open" ELSE serial_conn
        /\ is_connected_flag' = ConnectFlag(opened)
        /\ ser_last' = [op |-> "connect", args |-> <<>>,
                        ret |-> IF opened THEN "True" ELSE "False"]
        /\ ser_out' = <<>>
        /\ ser_closed' = 0
        /\ ser_state' = IF opened THEN "Connected" ELSE "Disconnected"
        /\ ser_orphan' = (ser_orphan \/ orphaned)
        /\ ser_block' = IF scoped THEN "in"
                        ELSE IF ser_block = "in" /\ orphaned THEN "in_orphaned"
                        ELSE ser_block
        /\ UNCHANGED spotVars

Storm32Connect ==
    \E opened \in BOOLEAN, finalized \in BOOLEAN :
        Storm32ConnectCall(FALSE, opened, finalized)

\* __enter__(): connect(), whose result is dropped; then the block runs.
Storm32Enter ==
    \E opened \in BOOLEAN, finalized \in BOOLEAN :
        Storm32ConnectCall(TRUE, opened, finalized)

\* A disconnect() that does not look at is_open.
HandleToCloseAny == serial_conn # "None"

\* disconnect()'s guard: self.serial_conn and self.serial_conn.is_open
HandleToClose == serial_conn # "None" /\ serial_conn = "open"

Storm32DisconnectCall(scoped) ==
    /\ ser_pre' = SerPre
    /\ IF HandleToClose
       THEN /\ serial_conn' = "closed"
            /\ is_connected_flag' = FALSE
            /\ ser_closed' = 1
       ELSE /\ UNCHANGED <<serial_conn, is_connected_flag>>
            /\ ser_closed' = 0
    /\ ser_last' = [op |-> "disconnect", args |-> <<>>, ret |-> "None"]
    /\ ser_out' = <<>>
    /\ ser_state' = "Disconnected"
    /\ ser_block' = IF ~scoped THEN ser_block
                    ELSE IF ser_block = "in_orphaned" THEN "out_orphaned" ELSE "out"
    /\ UNCHANGED ser_orphan
    /\ UNCHANGED spotVars

Storm32Disconnect == Storm32DisconnectCall(FALSE)

\* __exit__(): disconnect(), whether the block completed or raised.
Storm32Exit ==
    /\ ser_block \in {"in", "in_orphaned"}
    /\ Storm32DisconnectCall(TRUE)

\* A set_angle that marks the driver not connected when the write raises.
Storm32SetAngleCallDropsLink(name, pitch, roll, yaw, write_ok) ==
    LET p == Max2(Deg(-90), Min2(Deg(90), pitch))
        r == Max2(Deg(-90), Min2(Deg(90), roll))
        y == Max2(Deg(-180), Min2(Deg(180), yaw))
        command == BuildAngleCommand(p, r, y)
        sent == Storm32IsConnected /\ command.ok /\ write_ok
    IN  /\ ser_pre' = SerPre
        /\ ser_out' = IF sent THEN command.bytes ELSE <<>>
        /\ ser_last' = [op |-> name, args |-> <<pitch, roll, yaw>>,
                        ret |-> IF sent THEN "True" ELSE "False"]
        /\ ser_closed' = 0
        /\ is_connected_flag' = (is_connected_flag /\ (sent \/ ~Storm32IsConnected))
        /\ UNCHANGED <<serial_conn, ser_state, ser_orphan, ser_block>>
        /\ UNCHANGED spotVars

\* A set_angle that encodes the caller's angles as given.
Storm32SetAngleCallNoClamp(name, pitch, roll, yaw, write_ok) ==
    LET command == BuildAngleCommand(pitch, roll, yaw)
        sent == Storm32IsConnected /\ command.ok /\ write_ok
    IN  /\ ser_pre' = SerPre
        /\ ser_out' = IF sent THEN command.bytes ELSE <<>>
        /\ ser_last' = [op |-> name, args |-> <<pitch, roll, yaw>>,
                        ret |-> IF sent THEN "True" ELSE "False"]
        /\ ser_closed' = 0
        /\ UNCHANGED <<serial_conn, is_connected_flag, ser_state, ser_orphan, ser_block>>
        /\ UNCHANGED spotVars

\* set_angle(pitch, roll, yaw); write_ok = FALSE is serial_conn.write raising.
Storm32SetAngleCall(name, pitch, roll, yaw, write_ok) ==
    LET p == Max2(Deg(-90), Min2(Deg(90), pitch))
        r == Max2(Deg(-90), Min2(Deg(90), roll))
        y == Max2(Deg(-180), Min2(Deg(180), yaw))
        command == BuildAngleCommand(p, r, y)
        sent == Storm32IsConnected /\ command.ok /\ write_ok
    IN  /\ ser_pre' = SerPre
        /\ ser_out' = IF sent THEN command.bytes ELSE <<>>
        /\ ser_last' = [op |-> name, args |-> <<pitch, roll, yaw>>,
                        ret |-> IF sent THEN "True" ELSE "False"]
        /\ ser_closed' = 0
        /\ UNCHANGED <<serial_conn, is_connected_flag, ser_state, ser_orphan, ser_block>>
        /\ UNCHANGED spotVars

Storm32SetAngle ==
    \E pitch \in AnglePitchArgs, roll \in AngleRollArgs, yaw \in AngleYawArgs,
       write_ok \in BOOLEAN :
        Storm32SetAngleCall("set_angle", pitch, roll, yaw, write_ok)

\* A center() that points the yaw axis backwards.
Storm32CenterReversed ==
    \E write_ok \in BOOLEAN : Storm32SetAngleCall("center", 0, 0, Deg(180), write_ok)

\* center(): set_angle(0, 0, 0)
Storm32Center ==
    \E write_ok \in BOOLEAN : Storm32SetAngleCall("center", 0, 0, 0, write_ok)

Storm32SetSpeed ==
    \E pitch_speed \in SpeedPitchArgs, roll_speed \in SpeedRollArgs,
       yaw_speed \in SpeedYawArgs, write_ok \in BOOLEAN :
        LET command == BuildSpeedCommand(pitch_speed, roll_speed, yaw_speed)
            sent == Storm32IsConnected /\ command.ok /\ write_ok
        IN  /\ ser_pre' = SerPre
            /\ ser_out' = IF sent THEN command.bytes ELSE <<>>
            /\ ser_last' = [op |-> "set_speed",
                            args |-> <<pitch_speed, roll_speed, yaw_speed>>,
                            ret |-> IF sent THEN "True" ELSE "False"]
            /\ ser_closed' = 0
            /\ UNCHANGED <<serial_conn, is_connected_flag, ser_state, ser_orphan, ser_block>>
            /\ UNCHANGED spotVars

\* get_status(): write_ok = FALSE is the request write raising, read_ok = FALSE
\* is in_waiting or read raising; reply is what the transport holds after the wait.
Storm32GetStatus ==
    \E write_ok \in BOOLEAN, read_ok \in BOOLEAN, reply \in Replies :
        LET sent == Storm32IsConnected /\ write_ok
            ret == IF sent /\ read_ok /\ Len(reply) > 0
                   THEN ParseStatusResponse(reply)
                   ELSE "None"
        IN  /\ ser_pre' = SerPre
            /\ ser_out' = IF sent THEN BuildStatusRequest ELSE <<>>
            /\ ser_last' = [op |-> "get_status", args |-> reply, ret |-> ret]
            /\ ser_closed' = 0
            /\ UNCHANGED <<serial_conn, is_connected_flag, ser_state, ser_orphan, ser_block>>
            /\ UNCHANGED spotVars

SerialNext ==
    \/ Storm32Connect
    \/ Storm32Disconnect
    \/ Storm32Enter
    \/ Storm32Exit
    \/ Storm32SetAngle
    \/ Storm32Center
    \/ Storm32SetSpeed
    \/ Storm32GetStatus

------------------------------------------------------------------------------
(* SpotlightController: constants *)

SERVO_MIN_PULSE == 1000

SERVO_MAX_PULSE == 2000

SERVO_CENTER_PULSE == 1500

\* Caller inputs of the spotlight controller, in fixed point.
PositionPitchArgs == {Deg(-120), Deg(30), Deg(88)}

PositionYawArgs == {Deg(45), Deg(190), Deg(-200)}

\* 300 and -300 are the speeds 0.3 and -0.3, whose fivefold is exactly +-1.5.
SpotSpeedArgs == {Deg(-150), Deg(100), 300}

SpotSpeedYawArgs == {Deg(-100), Deg(50), -300}

\* What mpu.get_orientation() may answer: a (pitch, roll) sample, None, or an error.
\* The samples are even in fixed point, so halving them is exact, as it is on floats.
Readings ==
    {[kind |-> "sample", pitch |-> Deg(10), roll |-> Deg(-4)],
     [kind |-> "sample", pitch |-> Deg(-40), roll |-> Deg(60)],
     [kind |-> "none", pitch |-> 0, roll |-> 0],
     [kind |-> "raise", pitch |-> 0, roll |-> 0]}

NoReading == [kind |-> "unread", pitch |-> 0, roll |-> 0]

NoRun == [valid |-> FALSE, n |-> 0, pitch |-> 0, yaw |-> 0, sample |-> NoReading]

\* __init__: the sensor object exists exactly when stabilization was asked for.
SpotInit ==
    /\ pigpio_present \in BOOLEAN
    /\ pi = "None"
    /\ use_stabilization \in BOOLEAN
    /\ has_mpu = use_stabilization
    /\ mpu_ready = FALSE
    /\ target_pitch = 0
    /\ target_yaw = 0
    /\ pitch_pwm = SERVO_CENTER_PULSE
    /\ yaw_pwm = SERVO_CENTER_PULSE
    /\ sp_last = [op |-> "init", args |-> <<>>, ret |-> "None"]
    /\ sp_writes = <<>>
    /\ sp_pre = [target_pitch |-> 0, target_yaw |-> 0,
                 pitch_pwm |-> SERVO_CENTER_PULSE, yaw_pwm |-> SERVO_CENTER_PULSE,
                 initialized |-> FALSE, zeroed |-> {},
                 use_stabilization |-> use_stabilization, mpu_ready |-> FALSE]
    /\ sp_issued = <<>>
    /\ sp_reading = NoReading
    /\ stab_count = 0
    /\ run = NoRun
    /\ sp_zeroed = {}

\* is_initialized()
SpotlightIsInitialized == pi # "None" /\ pi = "connected"

SpotPre == [target_pitch |-> target_pitch, target_yaw |-> target_yaw,
            pitch_pwm |-> pitch_pwm, yaw_pwm |-> yaw_pwm,
            initialized |-> SpotlightIsInitialized, zeroed |-> sp_zeroed,
            use_stabilization |-> use_stabilization, mpu_ready |-> mpu_ready]

------------------------------------------------------------------------------
(* SpotlightController: hardware writes *)

\* The writes that reach the hardware when a call attempts `attempts` in order and
\* attempt number fail_at raises (0: none raises).  A raising write changes nothing.
Landed(attempts, fail_at) ==
    IF fail_at = 0 THEN attempts ELSE SubSeq(attempts, 1, fail_at - 1)

\* The channels a 0 has reached once the writes of one call landed.
ZeroedAfter(zeroed, writes) ==
    zeroed \cup {writes[i][1] : i \in {j \in 1..Len(writes) : writes[j][2] = 0}}

\* An _angle_to_pulse that runs from the maximum pulse downwards.
AngleToPulseDescending(angle, min_angle, max_angle) ==
    SERVO_MAX_PULSE
        - Trunc((angle - min_angle) * (SERVO_MAX_PULSE - SERVO_MIN_PULSE),
                max_angle - min_angle)

\* An _angle_to_pulse that normalizes by max_angle instead of the span.
AngleToPulseWrongSpan(angle, min_angle, max_angle) ==
    SERVO_MIN_PULSE
        + Trunc((angle - min_angle) * (SERVO_MAX_PULSE - SERVO_MIN_PULSE), max_angle)

\* _angle_to_pulse: normalized = (angle - min_angle) / (max_angle - min_angle),
\* pulse = SERVO_MIN_PULSE + int(normalized * (SERVO_MAX_PULSE - SERVO_MIN_PULSE))
AngleToPulse(angle, min_angle, max_angle) ==
    SERVO_MIN_PULSE
        + Trunc((angle - min_angle) * (SERVO_MAX_PULSE - SERVO_MIN_PULSE),
                max_angle - min_angle)

\* set_speed's conversion: SERVO_CENTER_PULSE + int(speed * 5)
SpeedToPulse(speed) == SERVO_CENTER_PULSE + Trunc(speed * 5, Scale)

------------------------------------------------------------------------------
(* SpotlightController: operations *)

\* The sensor collaborator (MPU6050, not part of the modelled source):
\* is_initialized() after initialize() answered `imu`, and after close().
MpuInitialize(imu) ==
    IF imu = "ok" THEN TRUE ELSE IF imu = "fail" THEN FALSE ELSE mpu_ready

MpuClose == FALSE

\* An initialize() that reports failure when the sensor does not come up.
SpotlightInitializeSensorFatal ==
    \E daemon_up \in BOOLEAN, mode_ok \in BOOLEAN, fail_at \in 0..2,
       imu \in {"ok", "fail", "raise"} :
        LET started == pigpio_present /\ daemon_up /\ mode_ok
            landed == IF started
                      THEN Landed(<<<<"pitch", SERVO_CENTER_PULSE>>,
                                    <<"yaw", SERVO_CENTER_PULSE>>>>, fail_at)
                      ELSE <<>>
            servos_ok == started /\ fail_at = 0
            imu_used == servos_ok /\ use_stabilization /\ has_mpu
            ret == IF servos_ok /\ ~(imu_used /\ imu \in {"raise", "fail"})
                   THEN "True" ELSE "False"
        IN  /\ sp_pre' = SpotPre
            /\ pi' = IF ~pigpio_present THEN pi
                     ELSE IF daemon_up THEN "connected" ELSE "unconnected"
            /\ sp_writes' = landed
            /\ use_stabilization' = IF imu_used /\ imu = "fail" THEN FALSE
                                    ELSE use_stabilization
            /\ mpu_ready' = IF imu_used THEN MpuInitialize(imu) ELSE mpu_ready
            /\ sp_last' = [op |-> "initialize", args |-> <<>>, ret |-> ret]
            /\ sp_issued' = <<>>
            /\ sp_reading' = NoReading
            /\ run' = NoRun
            /\ UNCHANGED <<pigpio_present, has_mpu, target_pitch, target_yaw,
                           pitch_pwm, yaw_pwm, stab_count>>
            /\ sp_zeroed' = ZeroedAfter(sp_zeroed, sp_writes')
            /\ UNCHANGED serialVars

\* initialize().  daemon_up: pigpio.pi() connected; mode_ok: neither set_mode
\* raised; fail_at: which centre-pulse write raised; imu: mpu.initialize()
\* returned True ("ok"), returned False ("fail"), or the sensor raised ("raise").
SpotlightInitialize ==
    \E daemon_up \in BOOLEAN, mode_ok \in BOOLEAN, fail_at \in 0..2,
       imu \in {"ok", "fail", "raise"} :
        LET started == pigpio_present /\ daemon_up /\ mode_ok
            landed == IF started
                      THEN Landed(<<<<"pitch", SERVO_CENTER_PULSE>>,
                                    <<"yaw", SERVO_CENTER_PULSE>>>>, fail_at)
                      ELSE <<>>
            servos_ok == started /\ fail_at = 0
            imu_used == servos_ok /\ use_stabilization /\ has_mpu
            ret == IF servos_ok /\ ~(imu_used /\ imu = "raise") THEN "True" ELSE "False"
        IN  /\ sp_pre' = SpotPre
            /\ pi' = IF ~pigpio_present THEN pi
                     ELSE IF daemon_up THEN "connected" ELSE "unconnected"
            /\ sp_writes' = landed
            /\ use_stabilization' = IF imu_used /\ imu = "fail" THEN FALSE
                                    ELSE use_stabilization
            /\ mpu_ready' = IF imu_used THEN MpuInitialize(imu) ELSE mpu_ready
            /\ sp_last' = [op |-> "initialize", args |-> <<>>, ret |-> ret]
            /\ sp_issued' = <<>>
            /\ sp_reading' = NoReading
            /\ run' = NoRun
            /\ UNCHANGED <<pigpio_present, has_mpu, target_pitch, target_yaw,
                           pitch_pwm, yaw_pwm, stab_count>>
            /\ sp_zeroed' = ZeroedAfter(sp_zeroed, sp_writes')
            /\ UNCHANGED serialVars

\* A set_position body that stores and converts the pose as given.
PositionPathUnclamped(pitch, yaw, fail_at) ==
    IF ~SpotlightIsInitialized
    THEN /\ UNCHANGED <<target_pitch, target_yaw, pitch_pwm, yaw_pwm>>
         /\ sp_writes' = <<>>
         /\ sp_issued' = <<>>
    ELSE LET pp == AngleToPulse(pitch, Deg(-90), Deg(90))
             yp == AngleToPulse(yaw, Deg(-180), Deg(180))
             landed == Landed(<<<<"pitch", pp>>, <<"yaw", yp>>>>, fail_at)
         IN  /\ target_pitch' = pitch
             /\ target_yaw' = yaw
             /\ pitch_pwm' = pp
             /\ yaw_pwm' = yp
             /\ sp_writes' = landed
             /\ sp_issued' = <<pitch, yaw>>

\* The body of set_position(pitch, yaw); fail_at: which pulse-width write raised.
PositionPath(pitch, yaw, fail_at) ==
    IF ~SpotlightIsInitialized
    THEN /\ UNCHANGED <<target_pitch, target_yaw, pitch_pwm, yaw_pwm>>
         /\ sp_writes' = <<>>
         /\ sp_issued' = <<>>
    ELSE LET p == Max2(Deg(-90), Min2(Deg(90), pitch))
             y == Max2(Deg(-180), Min2(Deg(180), yaw))
             pp == AngleToPulse(p, Deg(-90), Deg(90))
             yp == AngleToPulse(y, Deg(-180), Deg(180))
             landed == Landed(<<<<"pitch", pp>>, <<"yaw", yp>>>>, fail_at)
         IN  /\ target_pitch' = p
             /\ target_yaw' = y
             /\ pitch_pwm' = pp
             /\ yaw_pwm' = yp
             /\ sp_writes' = landed
             /\ sp_issued' = <<p, y>>

\* What set_position returns.
PositionRet(fail_at) ==
    IF SpotlightIsInitialized /\ fail_at = 0 THEN "True" ELSE "False"

\* set_position called by the caller, directly or through center().
SpotlightSetPositionCall(name, args, pitch, yaw, fail_at) ==
    /\ sp_pre' = SpotPre
    /\ PositionPath(pitch, yaw, fail_at)
    /\ sp_last' = [op |-> name, args |-> args, ret |-> PositionRet(fail_at)]
    /\ sp_reading' = NoReading
    /\ stab_count' = IF SpotlightIsInitialized THEN 0 ELSE stab_count
    /\ run' = IF PositionRet(fail_at) = "True"
              THEN [valid |-> TRUE, n |-> 0, pitch |-> target_pitch',
                    yaw |-> target_yaw', sample |-> NoReading]
              ELSE NoRun
    /\ UNCHANGED <<pigpio_present, pi, use_stabilization, has_mpu, mpu_ready>>
    /\ sp_zeroed' = ZeroedAfter(sp_zeroed, sp_writes')
    /\ UNCHANGED serialVars

SpotlightSetPosition ==
    \E pitch \in PositionPitchArgs, yaw \in PositionYawArgs, fail_at \in 0..2 :
        SpotlightSetPositionCall("set_position", <<pitch, yaw>>, pitch, yaw, fail_at)

\* center(): set_position(0, 0)
SpotlightCenter ==
    \E fail_at \in 0..2 : SpotlightSetPositionCall("center", <<>>, 0, 0, fail_at)

\* set_speed(pitch_speed, yaw_speed), called directly or through stop().
SpotlightSetSpeedCall(name, args, pitch_speed, yaw_speed, fail_at) ==
    LET ps == Max2(Deg(-100), Min2(Deg(100), pitch_speed))
        ys == Max2(Deg(-100), Min2(Deg(100), yaw_speed))
        landed == IF SpotlightIsInitialized
                  THEN Landed(<<<<"pitch", SpeedToPulse(ps)>>,
                                <<"yaw", SpeedToPulse(ys)>>>>, fail_at)
                  ELSE <<>>
    IN  /\ sp_pre' = SpotPre
        /\ sp_writes' = landed
        /\ sp_last' = [op |-> name, args |-> args,
                       ret |-> IF SpotlightIsInitialized /\ fail_at = 0
                               THEN "True" ELSE "False"]
        /\ sp_issued' = <<>>
        /\ sp_reading' = NoReading
        /\ run' = NoRun
        /\ UNCHANGED <<pigpio_present, pi, use_stabilization, has_mpu, mpu_ready,
                       target_pitch, target_yaw, pitch_pwm, yaw_pwm, stab_count>>
        /\ sp_zeroed' = ZeroedAfter(sp_zeroed, sp_writes')
        /\ UNCHANGED serialVars

SpotlightSetSpeed ==
    \E pitch_speed \in SpotSpeedArgs, yaw_speed \in SpotSpeedYawArgs, fail_at \in 0..2 :
        SpotlightSetSpeedCall("set_speed", <<pitch_speed, yaw_speed>>,
                              pitch_speed, yaw_speed, fail_at)

\* stop(): set_speed(0, 0)
SpotlightStop ==
    \E fail_at \in 0..2 : SpotlightSetSpeedCall("stop", <<>>, 0, 0, fail_at)

\* A get_orientation() that hands the sample over as (roll, pitch).
GetOrientationSwapped(reading) ==
    IF ~use_stabilization \/ ~has_mpu \/ ~mpu_ready
    THEN [some |-> FALSE, pitch |-> 0, roll |-> 0]
    ELSE IF reading.kind = "sample"
    THEN [some |-> TRUE, pitch |-> reading.roll, roll |-> reading.pitch]
    ELSE [some |-> FALSE, pitch |-> 0, roll |-> 0]

\* A get_orientation() that answers a level sample when the sensor raises.
GetOrientationDefault(reading) ==
    IF ~use_stabilization \/ ~has_mpu \/ ~mpu_ready
    THEN [some |-> FALSE, pitch |-> 0, roll |-> 0]
    ELSE IF reading.kind = "none"
    THEN [some |-> FALSE, pitch |-> 0, roll |-> 0]
    ELSE [some |-> TRUE, pitch |-> reading.pitch, roll |-> reading.roll]

\* get_orientation(): None unless stabilization is on, the sensor exists and is
\* initialized, and the read neither raises nor answers None.
GetOrientation(reading) ==
    IF ~use_stabilization \/ ~has_mpu \/ ~mpu_ready
    THEN [some |-> FALSE, pitch |-> 0, roll |-> 0]
    ELSE IF reading.kind = "sample"
    THEN [some |-> TRUE, pitch |-> reading.pitch, roll |-> reading.roll]
    ELSE [some |-> FALSE, pitch |-> 0, roll |-> 0]

\* stabilize(): one correction step; -x * 0.5 is exact on the even samples.
SpotlightStabilize ==
    \E reading \in Readings, fail_at \in 0..2 :
        LET orientation == GetOrientation(reading)
            read == use_stabilization /\ orientation.some
            correction_pitch == (-orientation.pitch * 5) \div 10
            correction_yaw == (-orientation.roll * 5) \div 10
            stabilized_pitch == target_pitch + correction_pitch
            stabilized_yaw == target_yaw + correction_yaw
            ret == IF read THEN PositionRet(fail_at) ELSE "False"
        IN  /\ stab_count < MaxStab
            /\ sp_pre' = SpotPre
            /\ IF read
               THEN PositionPath(stabilized_pitch, stabilized_yaw, fail_at)
               ELSE /\ UNCHANGED <<target_pitch, target_yaw, pitch_pwm, yaw_pwm>>
                    /\ sp_writes' = <<>>
                    /\ sp_issued' = <<>>
            /\ sp_last' = [op |-> "stabilize", args |-> <<>>, ret |-> ret]
            /\ sp_reading' = reading
            /\ stab_count' = IF read /\ SpotlightIsInitialized
                             THEN stab_count + 1 ELSE stab_count
            /\ run' = IF ret = "True" /\ run.valid
                         /\ (run.n = 0 \/ run.sample = reading)
                      THEN [run EXCEPT !.n = run.n + 1, !.sample = reading]
                      ELSE NoRun
            /\ UNCHANGED <<pigpio_present, pi, use_stabilization, has_mpu, mpu_ready>>
            /\ sp_zeroed' = ZeroedAfter(sp_zeroed, sp_writes')
            /\ UNCHANGED serialVars

\* close(): write 0 to both channels, stop the pigpio handle, close the sensor.
\* A command on a handle that is not connected raises; any raise ends close().
SpotlightClose ==
    \E fail_at \in 0..2 :
        LET f == IF pi = "connected" THEN fail_at ELSE 1
            landed == IF pi = "None" THEN <<>>
                      ELSE Landed(<<<<"pitch", 0>>, <<"yaw", 0>>>>, f)
            raised == pi # "None" /\ f # 0
        IN  /\ sp_pre' = SpotPre
            /\ sp_writes' = landed
            /\ pi' = IF pi # "None" /\ ~raised THEN "unconnected" ELSE pi
            /\ mpu_ready' = IF has_mpu /\ ~raised THEN MpuClose ELSE mpu_ready
            /\ sp_last' = [op |-> "close", args |-> <<>>, ret |-> "None"]
            /\ sp_issued' = <<>>
            /\ sp_reading' = NoReading
            /\ run' = NoRun
            /\ UNCHANGED <<pigpio_present, use_stabilization, has_mpu,
                           target_pitch, target_yaw, pitch_pwm, yaw_pwm, stab_count>>
            /\ sp_zeroed' = ZeroedAfter(sp_zeroed, sp_writes')
            /\ UNCHANGED serialVars

SpotNext ==
    \/ SpotlightInitialize
    \/ SpotlightSetPosition
    \/ SpotlightCenter
    \/ SpotlightSetSpeed
    \/ SpotlightStop
    \/ SpotlightStabilize
    \/ SpotlightClose

------------------------------------------------------------------------------
(* Specifications *)

vars == <<serialVars, spotVars>>

\* Both controllers as constructed.
Init == SerialInit /\ SpotInit

\* The serial driver's calls alone.
SerialSpec == Init /\ [][SerialNext]_vars

\* The spotlight controller's calls alone.
SpotSpec == Init /\ [][SpotNext]_vars

------------------------------------------------------------------------------
(* Properties *)

\* The calls of the serial driver that need a connection.
MotionOps == {"set_angle", "set_speed", "center", "get_status"}

TargetUnchanged ==
    /\ target_pitch = sp_pre.target_pitch
    /\ target_yaw = sp_pre.target_yaw

LinkUnchanged ==
    /\ serial_conn = ser_pre.conn
    /\ is_connected_flag = ser_pre.flag
    /\ Storm32IsConnected = ser_pre.connected

\* C1: a stabilization step never changes the stored target, whether it succeeds
\* or fails; only the caller's position and speed commands may change it.
C1_StabilizeKeepsTarget ==
    sp_last.op \notin {"set_position", "center", "set_speed", "stop"} => TargetUnchanged

\* C2: after the caller set the target to (p, y), every one of n >= 1 consecutive
\* stabilization steps that read the same sample (pitch, roll) issues the pose
\* clamp(p - 0.5*pitch), clamp(y - 0.5*roll).
C2_NoAccumulation ==
    (sp_last.op = "stabilize" /\ run.valid /\ run.n >= 1)
        => sp_issued =
             <<Max2(Deg(-90), Min2(Deg(90), run.pitch - run.sample.pitch \div 2)),
               Max2(Deg(-180), Min2(Deg(180), run.yaw - run.sample.roll \div 2))>>

\* C3: set_angle, set_speed, center and get_status called on a Disconnected driver
\* (never connected, after a failed connect, after disconnect) return False/None,
\* write no byte and leave the connection state as it was.
C3_DisconnectedCallsFail ==
    (ser_last.op \in MotionOps /\ ser_pre.state = "Disconnected")
        => /\ ser_last.ret \in {"False", "None"}
           /\ ser_out = <<>>
           /\ LinkUnchanged

\* C3 witness: set_speed on a driver whose reconnect failed, the earlier handle
\* still open.
C3_Witness ==
    /\ ser_last.op = "set_speed"
    /\ ser_pre.state = "Disconnected"
    /\ ser_pre.conn = "open"
    /\ ser_last.ret = "False"

\* C4: every pulse width that reaches a servo channel lies in [1000, 2000], except
\* 0, which only close() writes.
C4_PulseWidthInRange ==
    \A i \in 1..Len(sp_writes) :
        \/ sp_writes[i][2] >= SERVO_MIN_PULSE /\ sp_writes[i][2] <= SERVO_MAX_PULSE
        \/ sp_writes[i][2] = 0 /\ sp_last.op = "close"

\* C4 witness: set_position with an out-of-range pitch wrote both channels, the
\* pitch channel at the lower limit.
C4_Witness ==
    /\ sp_last.op = "set_position"
    /\ sp_last.args[1] < Deg(-90)
    /\ Len(sp_writes) = 2
    /\ sp_writes[1] = <<"pitch", SERVO_MIN_PULSE>>

\* C5: a set_position that returns False, for either cause, leaves target_pitch
\* and target_yaw as they were.
C5_FailedSetPositionKeepsTarget ==
    (sp_last.op = "set_position" /\ sp_last.ret = "False") => TargetUnchanged

\* C6: after any stabilize(), either both channels received the corrected pulse
\* width or neither was written.
C6_StabilizeBothOrNeither ==
    sp_last.op = "stabilize" => Len(sp_writes) \in {0, 2}

\* The orientation sample was unavailable to the last stabilize(): stabilization
\* off, sensor absent or uninitialized, or the read answering None or raising.
SampleUnavailable ==
    \/ ~sp_pre.use_stabilization
    \/ ~has_mpu
    \/ ~sp_pre.mpu_ready
    \/ sp_reading.kind \in {"none", "raise"}

\* C7: when the orientation sample is unavailable, stabilize() returns False,
\* writes no pulse width and leaves the target unchanged.
C7_NoSampleNoStep ==
    (sp_last.op = "stabilize" /\ SampleUnavailable)
        => /\ sp_last.ret = "False"
           /\ sp_writes = <<>>
           /\ TargetUnchanged

\* C7 witness: stabilize() on an initialized controller with a ready sensor whose
\* read raised.
C7_Witness ==
    /\ sp_last.op = "stabilize"
    /\ sp_pre.initialized
    /\ sp_pre.use_stabilization
    /\ sp_pre.mpu_ready
    /\ sp_reading.kind = "raise"

\* C8: after a connect() whose open failed, is_connected() is false, and a motion
\* call made next fails with no byte written, whatever the state before.
C8_FailedConnectDisconnects ==
    /\ (ser_last.op = "connect" /\ ser_last.ret = "False") => ~Storm32IsConnected
    /\ (ser_last.op \in MotionOps /\ ser_pre.last_op = "connect"
            /\ ser_pre.last_ret = "False")
        => (ser_last.ret \in {"False", "None"} /\ ser_out = <<>>)

\* C8 witness: get_status right after a connect() that failed on a driver that
\* was Connected (its handle is still open).
C8_Witness ==
    /\ ser_last.op = "get_status"
    /\ ser_pre.last_op = "connect"
    /\ ser_pre.last_ret = "False"
    /\ ser_pre.conn = "open"
    /\ ser_last.ret = "None"

C10_OnlyConnectChangesLink ==
    ser_last.op \in MotionOps => (LinkUnchanged /\ ser_state = ser_pre.state)

\* C10 witness: set_angle on a Connected driver whose write raised.
C10_Witness ==
    /\ ser_last.op = "set_angle"
    /\ ser_pre.connected
    /\ ser_last.ret = "False"
    /\ Storm32IsConnected

------------------------------------------------------------------------------
(* Reading a written frame back *)

\* The signed 16-bit value of two little-endian bytes.
DecodeLE16(lo, hi) ==
    LET u == lo + 256 * hi IN IF u >= 32768 THEN u - 65536 ELSE u

\* The three 16-bit fields of an 8-byte frame.
Fields(frame) ==
    <<DecodeLE16(frame[3], frame[4]), DecodeLE16(frame[5], frame[6]),
      DecodeLE16(frame[7], frame[8])>>

\* clamp(v, lo, hi), written as a case split
Clamped(v, lo, hi) == IF v < lo THEN lo ELSE IF v > hi THEN hi ELSE v

\* field is the 0.01-degree integer field of angle: it differs from angle * 100
\* by less than one unit.
Carries(field, angle) ==
    LET d == field * Scale - angle * 100 IN d > -Scale /\ d < Scale

\* C11: the frame a successful set_angle wrote carries the clamped angles:
\* pitch and roll limited to [-90, 90], yaw to [-180, 180], so the fields lie in
\* [-9000, 9000], [-9000, 9000] and [-18000, 18000]; (120, -150, 200) is
\* encoded as 9000, -9000, 18000.
C11_SetAngleClampsBeforeEncoding ==
    (ser_last.op = "set_angle" /\ ser_last.ret = "True") =>
        /\ Len(ser_out) = 8
        /\ LET f == Fields(ser_out)
               a == ser_last.args
           IN  /\ Carries(f[1], Clamped(a[1], Deg(-90), Deg(90)))
               /\ Carries(f[2], Clamped(a[2], Deg(-90), Deg(90)))
               /\ Carries(f[3], Clamped(a[3], Deg(-180), Deg(180)))
               /\ f[1] >= -9000 /\ f[1] <= 9000
               /\ f[2] >= -9000 /\ f[2] <= 9000
               /\ f[3] >= -18000 /\ f[3] <= 18000
               /\ (a = <<Deg(120), Deg(-150), Deg(200)>>) => f = <<9000, -9000, 18000>>

C11_Witness ==
    /\ ser_last.op = "set_angle"
    /\ ser_last.ret = "True"
    /\ ser_pre.state = "Connected"
    /\ ser_last.args = <<Deg(120), Deg(-150), Deg(200)>>
    /\ Fields(ser_out) = <<9000, -9000, 18000>>

\* field is angle * 100 with the fraction dropped (rounded toward zero).
TruncatedTowardZero(field, angle) ==
    IF angle >= 0
    THEN field * Scale <= angle * 100 /\ angle * 100 < (field + 1) * Scale
    ELSE field * Scale >= angle * 100 /\ angle * 100 > (field - 1) * Scale

\* C12: an angle frame is exactly 8 bytes: 0xFA, 0x0E, then the (clamped) pitch,
\* roll and yaw times 100 as little-endian signed 16-bit integers, truncated
\* toward zero, so each field is within 0.01 degree of its angle; 12.34 gives
\* 1234 and -12.345 gives -1234.
C12_AngleFrameLayout ==
    (ser_last.op \in {"set_angle", "center"} /\ ser_last.ret = "True") =>
        /\ Len(ser_out) = 8
        /\ ser_out[1] = 250
        /\ ser_out[2] = 14
        /\ \A i \in 3..8 : ser_out[i] \in 0..255
        /\ LET f == Fields(ser_out)
               a == ser_last.args
               c == <<Clamped(a[1], Deg(-90), Deg(90)), Clamped(a[2], Deg(-90), Deg(90)),
                      Clamped(a[3], Deg(-180), Deg(180))>>
           IN  /\ \A i \in 1..3 : TruncatedTowardZero(f[i], c[i]) /\ Carries(f[i], c[i])
               /\ ser_out = <<250, 14, f[1] % 256, (f[1] % 65536) \div 256,
                              f[2] % 256, (f[2] % 65536) \div 256,
                              f[3] % 256, (f[3] % 65536) \div 256>>
               /\ (a[1] = 12340) => f[1] = 1234
               /\ (a[3] = -12345) => f[3] = -1234

C12_Witness ==
    /\ ser_last.op = "set_angle"
    /\ ser_last.ret = "True"
    /\ ser_last.args[1] = 12340
    /\ ser_last.args[3] = -12345
    /\ Len(ser_out) = 8
    /\ Fields(ser_out)[1] = 1234
    /\ Fields(ser_out)[3] = -1234

\* Every frame of the protocol starts with a two-byte header, so a reply of
\* fewer than two bytes is too short to be a status reply.
TooShortReply(reply) == Len(reply) < 2

\* C13: get_status returns a status record only for a well-formed reply: a reply
\* that is too short to be a status reply gives None, and so does an empty read.
C13_NoRecordFromShortReply ==
    (ser_last.op = "get_status" /\ TooShortReply(ser_last.args)) =>
        ser_last.ret = "None"

\* round(n / d) for d > 0 as Python rounds: to the nearest integer, ties to even.
RoundHalfEven(n, d) ==
    LET q == n \div d
        r == n % d
    IN  IF 2 * r < d THEN q
        ELSE IF 2 * r > d THEN q + 1
        ELSE IF q % 2 = 0 THEN q ELSE q + 1

\* The reference speed mapping: center + round(speed_percent * 5), clamped.
SpeedReference(speed) ==
    Clamped(SERVO_CENTER_PULSE + RoundHalfEven(speed * 5, Scale),
            SERVO_MIN_PULSE, SERVO_MAX_PULSE)

\* C14: a successful set_speed writes to each axis the pulse width
\* center + round(speed_percent * 5) clamped to [1000, 2000], for every speed,
\* whole or fractional.
C14_SpeedPulseIsRounded ==
    (sp_last.op = "set_speed" /\ sp_last.ret = "True") =>
        sp_writes = <<<<"pitch", SpeedReference(sp_last.args[1])>>,
                      <<"yaw", SpeedReference(sp_last.args[2])>>>>

\* pulse is the whole part of the point that lies as far into [1000, 2000] as
\* angle lies into [min_angle, max_angle].
Interpolates(pulse, angle, min_angle, max_angle) ==
    LET num == (angle - min_angle) * (SERVO_MAX_PULSE - SERVO_MIN_PULSE)
        den == max_angle - min_angle
    IN  /\ (pulse - SERVO_MIN_PULSE) * den <= num
        /\ num < (pulse - SERVO_MIN_PULSE + 1) * den

\* C15: the pulse widths the position path computes are the linear interpolation
\* of the clamped angle over its range into [1000, 2000]: the lower limit gives
\* 1000, the upper limit 2000 and the midpoint 1500, for pitch over -90..90 and
\* yaw over -180..180, and a larger angle never gives a smaller pulse width than
\* the angle converted before it.
C15_AngleToPulseInterpolates ==
    (sp_issued # <<>>) =>
        /\ Interpolates(pitch_pwm, sp_issued[1], Deg(-90), Deg(90))
        /\ Interpolates(yaw_pwm, sp_issued[2], Deg(-180), Deg(180))
        /\ (sp_issued[1] = Deg(-90)) => pitch_pwm = 1000
        /\ (sp_issued[1] = Deg(0)) => pitch_pwm = 1500
        /\ (sp_issued[1] = Deg(90)) => pitch_pwm = 2000
        /\ (sp_issued[2] = Deg(-180)) => yaw_pwm = 1000
        /\ (sp_issued[2] = Deg(0)) => yaw_pwm = 1500
        /\ (sp_issued[2] = Deg(180)) => yaw_pwm = 2000
        /\ (sp_pre.target_pitch <= sp_issued[1]) => sp_pre.pitch_pwm <= pitch_pwm
        /\ (sp_pre.target_pitch >= sp_issued[1]) => sp_pre.pitch_pwm >= pitch_pwm
        /\ (sp_pre.target_yaw <= sp_issued[2]) => sp_pre.yaw_pwm <= yaw_pwm
        /\ (sp_pre.target_yaw >= sp_issued[2]) => sp_pre.yaw_pwm >= yaw_pwm

\* C15 witness: the position path converted the lower pitch limit and the upper
\* yaw limit right after it had converted an angle strictly inside each range.
C15_Witness ==
    /\ sp_issued = <<Deg(-90), Deg(180)>>
    /\ pitch_pwm = 1000
    /\ yaw_pwm = 2000
    /\ sp_pre.target_pitch > Deg(-90) /\ sp_pre.target_pitch # 0
    /\ sp_pre.target_yaw < Deg(180) /\ sp_pre.target_yaw # 0
    /\ sp_pre.pitch_pwm > 1000
    /\ sp_pre.yaw_pwm < 2000

\* C16: the stabilization step that directly follows a successful caller
\* set_position/center to (tp, ty) and reads the sample (pitch, roll) issues
\* (tp - 0.5 * pitch, ty - 0.5 * roll), clamped to [-90, 90] and [-180, 180];
\* roll corrects the yaw axis.  Target (0, 0) with sample (10, -4) issues (-5, 2).
C16_FirstStepCorrection ==
    (sp_last.op = "stabilize" /\ run.valid /\ run.n = 1) =>
        /\ run.pitch = sp_pre.target_pitch
        /\ run.yaw = sp_pre.target_yaw
        /\ sp_reading.kind = "sample"
        /\ Len(sp_issued) = 2
        /\ 2 * sp_issued[1]
              = Clamped(2 * run.pitch - sp_reading.pitch, 2 * Deg(-90), 2 * Deg(90))
        /\ 2 * sp_issued[2]
              = Clamped(2 * run.yaw - sp_reading.roll, 2 * Deg(-180), 2 * Deg(180))
        /\ (run.pitch = 0 /\ run.yaw = 0
              /\ sp_reading.pitch = Deg(10) /\ sp_reading.roll = Deg(-4))
             => sp_issued = <<Deg(-5), Deg(2)>>

C16_Witness ==
    /\ sp_last.op = "stabilize"
    /\ sp_last.ret = "True"
    /\ run.valid /\ run.n = 1
    /\ run.pitch = 0 /\ run.yaw = 0
    /\ sp_reading = [kind |-> "sample", pitch |-> Deg(10), roll |-> Deg(-4)]
    /\ sp_issued = <<Deg(-5), Deg(2)>>
    /\ Len(sp_writes) = 2

\* C17: the value 0 is written to each channel at most once, and only as the last
\* write to that channel, whatever operations are called and however often
\* close() is called: no write reaches a channel that a 0 has reached before.
C17_SentinelOnceAndLast ==
    \A i \in 1..Len(sp_writes) : sp_writes[i][1] \notin sp_pre.zeroed

\* C18: in every reachable state the stored target lies in range:
\* target_pitch in [-90, 90] and target_yaw in [-180, 180].
C18_TargetInRange ==
    /\ target_pitch >= Deg(-90) /\ target_pitch <= Deg(90)
    /\ target_yaw >= Deg(-180) /\ target_yaw <= Deg(180)

\* C18 witness: a stabilization step whose corrected pitch lay above 90 stored
\* the limit, with a yaw target that an out-of-range set_position had put at
\* its limit before.
C18_Witness ==
    /\ sp_last.op = "stabilize"
    /\ sp_last.ret = "True"
    /\ 2 * sp_pre.target_pitch - sp_reading.pitch > 2 * Deg(90)
    /\ target_pitch = Deg(90)
    /\ sp_pre.target_yaw = Deg(-180)
    /\ target_yaw = Deg(-180)

\* C19: center() behaves as set_angle(0, 0, 0): either call, on a Connected
\* driver, returns True having written exactly 0xFA 0x0E and six zero bytes, or
\* returns False having written nothing; on a Disconnected driver it returns
\* False and writes nothing; neither changes the connection.
C19_CenterIsSetAngleZero ==
    (ser_last.op = "center"
        \/ (ser_last.op = "set_angle" /\ ser_last.args = <<0, 0, 0>>)) =>
        /\ ser_last.args = <<0, 0, 0>>
        /\ ser_last.ret \in {"True", "False"}
        /\ (ser_last.ret = "True") =>
              (ser_pre.connected /\ ser_out = <<250, 14, 0, 0, 0, 0, 0, 0>>)
        /\ (ser_last.ret = "False") => ser_out = <<>>
        /\ (ser_pre.state = "Disconnected") => ser_last.ret = "False"
        /\ LinkUnchanged

\* C19 witness: a successful center() right after a successful set_angle.
C19_Witness ==
    /\ ser_last.op = "center"
    /\ ser_last.ret = "True"
    /\ ser_out = <<250, 14, 0, 0, 0, 0, 0, 0>>
    /\ ser_pre.last_op = "set_angle"
    /\ ser_pre.last_ret = "True"

\* The scaled speed, its fraction dropped, fits the signed 16-bit field.
SpeedFits(speed) == speed * 10 > -32769 * Scale /\ speed * 10 < 32768 * Scale

\* field is speed * 10 with the fraction dropped.
SpeedField(field, speed) ==
    IF speed >= 0
    THEN field * Scale <= speed * 10 /\ speed * 10 < (field + 1) * Scale
    ELSE field * Scale >= speed * 10 /\ speed * 10 > (field - 1) * Scale

\* C20: set_speed does not clamp: a set_speed that returned True wrote exactly one
\* 8-byte frame, 0xFA, 0x0F and the caller's three speeds times 10 as
\* little-endian signed 16-bit integers, unchanged (500 is encoded as 5000);
\* on a Connected driver with speeds that fit the field, the call either wrote
\* that frame or wrote nothing and returned False.
C20_SetSpeedUnclamped ==
    (ser_last.op = "set_speed") =>
        LET a == ser_last.args
        IN  /\ (ser_last.ret = "True") =>
                  /\ ser_pre.connected
                  /\ \A i \in 1..3 : SpeedFits(a[i])
                  /\ Len(ser_out) = 8
                  /\ ser_out[1] = 250
                  /\ ser_out[2] = 15
                  /\ \A i \in 1..3 : SpeedField(Fields(ser_out)[i], a[i])
                  /\ (a[1] = Deg(500)) => Fields(ser_out)[1] = 5000
            /\ (ser_last.ret = "False") => ser_out = <<>>

\* C20 witness: a Connected driver sent the speeds (500, -20, 0) as 5000, -200, 0.
C20_Witness ==
    /\ ser_last.op = "set_speed"
    /\ ser_last.ret = "True"
    /\ ser_pre.state = "Connected"
    /\ ser_last.args = <<Deg(500), Deg(-20), Deg(0)>>
    /\ Len(ser_out) = 8
    /\ Fields(ser_out) = <<5000, -200, 0>>

\* The last call was the __exit__ that ended a with-block.
BlockLeft == ser_last.op = "disconnect" /\ ser_pre.block \in {"in", "in_orphaned"}
                /\ ser_block \in {"out", "out_orphaned"}

\* C21: when a with-block on the serial driver has been left, on whatever path,
\* the driver is Disconnected and no handle it opened for the block is open.
C21_ScopedRelease ==
    BlockLeft =>
        /\ ~Storm32IsConnected
        /\ ser_state = "Disconnected"
        /\ serial_conn # "open"
        /\ ser_block = "out"

\* C23: the driver holds at most one open handle, and once a disconnect() has
\* returned, no handle the driver opened is open, whatever connect() and
\* disconnect() calls came before.
C23_NoHandleLeftOpen ==
    /\ ~(serial_conn = "open" /\ ser_orphan)
    /\ (ser_last.op = "disconnect") => (serial_conn # "open" /\ ~ser_orphan)

\* The motion calls of the spotlight controller.
SpotMotionOps == {"set_position", "center", "set_speed", "stop", "stabilize"}

\* C22: after an initialize() that returned False the controller is not
\* initialized, and the set_position, set_speed, stop, center or stabilize that
\* follows it returns False without writing a pulse width.
C22_FailedInitializeLeavesUninitialized ==
    [][/\ (sp_last'.op = "initialize" /\ sp_last'.ret = "False")
            => ~SpotlightIsInitialized'
       /\ (sp_last.op = "initialize" /\ sp_last.ret = "False"
             /\ sp_last'.op \in SpotMotionOps)
            => (sp_last'.ret = "False" /\ sp_writes' = <<>>)]_vars

\* C24: after a close() on an initialized controller the controller is not
\* initialized, the set_position, set_speed, stop, center or stabilize that
\* follows returns False and writes nothing, and no such call ever writes a
\* non-zero pulse width to a channel that a 0 has reached.
C24_ClosedStaysClosed ==
    [][/\ (sp_last'.op = "close" /\ sp_pre'.initialized) => ~SpotlightIsInitialized'
       /\ (sp_last.op = "close" /\ sp_pre.initialized
             /\ sp_last'.op \in SpotMotionOps)
            => (sp_last'.ret = "False" /\ sp_writes' = <<>>)
       /\ (sp_last'.op \in SpotMotionOps)
            => \A i \in 1..Len(sp_writes') :
                   sp_writes'[i][2] = 0 \/ sp_writes'[i][1] \notin sp_zeroed]_vars

\* C25: a sensor whose initialize() fails switches stabilization off while
\* initialize() still returns True; no operation switches stabilization on
\* again; with it off every stabilize() returns False, writes nothing and
\* leaves the target alone; set_position and set_speed still succeed when
\* their writes land.
C25_SensorFailureDegrades ==
    /\ (sp_last.op = "initialize" /\ sp_pre.use_stabilization /\ ~use_stabilization)
          => (sp_last.ret = "True" /\ SpotlightIsInitialized)
    /\ ~sp_pre.use_stabilization => ~use_stabilization
    /\ (sp_last.op = "stabilize" /\ ~sp_pre.use_stabilization)
          => (sp_last.ret = "False" /\ sp_writes = <<>> /\ TargetUnchanged)
    /\ (sp_last.op \in {"set_position", "set_speed"} /\ has_mpu
            /\ ~sp_pre.use_stabilization /\ sp_pre.initialized)
          => (sp_last.ret = "True" <=> Len(sp_writes) = 2)

\* C25 witness: a set_position that succeeded on a controller built with
\* stabilization, after the sensor had failed to initialize.
C25_Witness ==
    /\ sp_last.op = "set_position"
    /\ sp_last.ret = "True"
    /\ Len(sp_writes) = 2
    /\ has_mpu
    /\ ~mpu_ready
    /\ ~use_stabilization
    /\ ~sp_pre.use_stabilization

\* speed * 10, before its fraction is dropped, lies outside [-32768, 32767].
ScaledOutsideInt16(speed) == speed * 10 < -32768 * Scale \/ speed * 10 > 32767 * Scale

\* The last call was a set_speed on a Connected driver.
SetSpeedWhileConnected == ser_last.op = "set_speed" /\ ser_pre.connected

\* The refusal of an out-of-range set_speed: False, nothing on the transport,
\* the link as it was and still Connected.
SetSpeedRefused ==
    /\ ser_last.ret = "False"
    /\ ser_out = <<>>
    /\ LinkUnchanged
    /\ Storm32IsConnected
    /\ ser_state = "Connected"

\* C26 as stated: a set_speed on a Connected driver with speed * 10 outside
\* [-32768, 32767] on any axis returns False, writes nothing and leaves the
\* driver Connected.
C26_OutOfRangeSpeedRefused ==
    (SetSpeedWhileConnected /\ \E i \in 1..3 : ScaledOutsideInt16(ser_last.args[i]))
        => SetSpeedRefused

\* C26 amended: a set_speed on a Connected driver with int(speed * 10) outside
\* [-32768, 32767] on any axis returns False, writes nothing and leaves the
\* driver Connected; a speed whose scaled value only exceeds 32767 by a
\* fraction is sent with the field 32767.
C26_OverflowingSpeedRefused ==
    SetSpeedWhileConnected =>
        LET a == ser_last.args
        IN  /\ (\E i \in 1..3 : ~SpeedFits(a[i])) => SetSpeedRefused
            /\ ser_last.ret \in {"True", "False"}
            /\ (ser_last.ret = "True" /\ a[2] = 3276750)
                  => (Len(ser_out) = 8 /\ Fields(ser_out)[2] = 32767)

\* C26 witness: set_speed(4000, -20, 0) on a Connected driver was refused.
C26_Witness ==
    /\ SetSpeedWhileConnected
    /\ ser_pre.state = "Connected"
    /\ ser_last.args = <<Deg(4000), Deg(-20), Deg(0)>>
    /\ SetSpeedRefused

====
